---- MODULE Spec2Model ----
(***************************************************************************)
(* Model of the C++ Forge IDE shell (src/App.tsx): the workspace state     *)
(* (file buffers, active selection, the localStorage slot) and the         *)
(* simulated build timeline of runCode.                                    *)
(*                                                                         *)
(* Strings.  A JavaScript string is modelled as a sequence of atoms.  An   *)
(* atom is a TLA+ string holding either one single character or a run of   *)
(* ordinary characters (lower-case letters, digits, blanks, punctuation    *)
(* that no operation of the program inspects).  The characters that        *)
(* an operation inspects are atoms of their own in every string the        *)
(* operation is applied to: the dot and the upper-case letters in a file   *)
(* name (split('.'), toLowerCase), the double quote, the backslash and the *)
(* line feed in every string that is serialized (JSON escaping), and each  *)
(* character of a string that substr cuts.  The line feed is written "\n". *)
(***************************************************************************)
EXTENDS Naturals, Sequences, FiniteSets, TLC

VARIABLES
    files,          \* useState files: sequence of FileNode records
    activeFileId,   \* useState activeFileId
    terminalLines,  \* useState terminalLines: sequence of TerminalLine records
    isRunning,      \* useState isRunning
    slot,           \* localStorage[STORAGE_KEY]: Nothing (no key) or Just(text)
    phase,          \* "ready": mounted; "loadFailed": the first render threw;
                    \* "crashed": a later render threw and React unmounted the tree
    runs,           \* the runCode invocations suspended at an await: for each one
                    \* its position and the activeFile.name its closure captured
    last            \* the last handler that ran, with its inputs (observation only)

vars == <<files, activeFileId, terminalLines, isRunning, slot, phase, runs, last>>

(***************************************************************************)
(* Bounds of the model.                                                    *)
(***************************************************************************)
MaxFiles == 2           \* Next asks for no new file beyond this many buffers
MaxWorkspaceFiles == 3  \* the same for WorkspaceNext, which has no console
MaxLog == 2             \* Next asks for no save once the log holds this many lines

\* A value that may be null or undefined: [given |-> FALSE] stands for null
\* (prompt cancelled, key absent) and for undefined.
Nothing == [given |-> FALSE, text |-> <<>>]

Just(s) == [given |-> TRUE, text |-> s]

\* JavaScript truthiness of a string-or-null: null and "" are falsy.
Truthy(v) == v.given /\ v.text # <<>>

Min(a, b) == IF a < b THEN a ELSE b

Last(s) == s[Len(s)]

RECURSIVE Concat(_)
\* The characters of a string, as one TLA+ string (used to compare strings
\* whatever the way their ordinary characters are grouped into atoms).
Concat(s) == IF s = <<>> THEN "" ELSE Head(s) \o Concat(Tail(s))

(***************************************************************************)
(* String.prototype.split('.'), Array.prototype.pop, toLowerCase           *)
(***************************************************************************)
RECURSIVE SplitDot(_, _, _)
\* name.split('.'): the segments between dots, starting from atom i with the
\* current segment cur.  A string without a dot is one segment.
SplitDot(s, i, cur) ==
    IF i > Len(s) THEN <<cur>>
    ELSE IF s[i] = "." THEN <<cur>> \o SplitDot(s, i + 1, <<>>)
    ELSE SplitDot(s, i + 1, Append(cur, s[i]))

Split(s) == SplitDot(s, 1, <<>>)

\* the letters toLowerCase changes, and what it changes them to
UPPER == <<"A", "B", "C", "D", "E", "F", "G", "H", "I", "J", "K", "L", "M",
           "N", "O", "P", "Q", "R", "S", "T", "U", "V", "W", "X", "Y", "Z">>

LOWER == <<"a", "b", "c", "d", "e", "f", "g", "h", "i", "j", "k", "l", "m",
           "n", "o", "p", "q", "r", "s", "t", "u", "v", "w", "x", "y", "z">>

\* toLowerCase of one atom: upper-case letters are atoms of their own.
LowerAtom(a) ==
    IF \E i \in 1..Len(UPPER) : UPPER[i] = a
    THEN LOWER[CHOOSE i \in 1..Len(UPPER) : UPPER[i] = a]
    ELSE a

ToLowerCase(s) == [i \in 1..Len(s) |-> LowerAtom(s[i])]

\* name.split('.').pop()?.toLowerCase()   (split never returns an empty array)
ExtOf(name) == Concat(ToLowerCase(Last(Split(name))))

(***************************************************************************)
(* createNewFile: language detection, skeletons, the generated id          *)
(***************************************************************************)
Rejected == "rejected"

\* LangOfExt with the header extensions taken for C
LangOfExt_HeaderAsC(ext) ==
    IF ext = "c" \/ ext = "h" \/ ext = "hpp" THEN "c"
    ELSE IF ext = "cpp" THEN "cpp"
    ELSE "rejected"

\* App.tsx 76-82: the language of an extension, or the alert branch.
LangOfExt(ext) ==
    IF ext = "c" THEN "c"
    ELSE IF ext = "cpp" \/ ext = "h" \/ ext = "hpp" THEN "cpp"
    ELSE Rejected

LF == "\n"

SKELETON_CPP == <<"#include <iostream>", LF, LF, "int main() {", LF, "    return 0;", LF, "}">>

SKELETON_C == <<"#include <stdio.h>", LF, LF, "int main() {", LF, "    return 0;", LF, "}">>

\* App.tsx 88
SkeletonOf(lang) == IF lang = "cpp" THEN SKELETON_CPP ELSE SKELETON_C

\* A value of Math.random() is represented by the digits of its base-36
\* fraction, one character per atom; the empty sequence is the value 0.
\* Number.prototype.toString(36):
ToString36(r) == IF r = <<>> THEN <<"0">> ELSE <<"0", ".">> \o r

SubstrStart == 2
SubstrLength == 9

\* String.prototype.substr(start, length)
Substr(s, start, length) == SubSeq(s, start + 1, Min(Len(s), start + length))

\* App.tsx 85: Math.random().toString(36).substr(2, 9)
NewId(r) == Substr(ToString36(r), SubstrStart, SubstrLength)

\* App.tsx 84-89
NewFile(name, lang, r) ==
    [id |-> NewId(r), name |-> name, language |-> lang, content |-> SkeletonOf(lang)]

(***************************************************************************)
(* INITIAL_FILES (App.tsx 7-20)                                            *)
(***************************************************************************)
Q == "\""
BS == "\\"

MAIN_CPP == <<"main", ".", "cpp">>
HEADER_H == <<"header", ".", "h">>

MAIN_CPP_CONTENT ==
    <<"#include <iostream>", LF, LF, "int main() {", LF,
      "    std::cout << ", Q, "C++ Forge Professional Edition", Q, " << std::endl;", LF,
      "    std::cout << ", Q, "Local high-performance environment initialized.", Q,
      " << std::endl;", LF,
      "    return 0;", LF, "}">>

HEADER_H_CONTENT ==
    <<"// Standard utility header", LF, "#ifndef UTILS_H", LF, "#define UTILS_H", LF, LF,
      "void greet();", LF, LF, "#endif">>

INITIAL_FILES ==
    << [id |-> <<"1">>, name |-> MAIN_CPP, language |-> "cpp", content |-> MAIN_CPP_CONTENT],
       [id |-> <<"2">>, name |-> HEADER_H, language |-> "cpp", content |-> HEADER_H_CONTENT] >>

(***************************************************************************)
(* JSON.stringify of a FileNode array.  A text is a sequence of atoms; the *)
(* punctuation of JSON and the escapes are atoms of their own.  The keys   *)
(* are written in the order the object literals of App.tsx create them     *)
(* (id, name, language, content), which the spread of handleEditorChange   *)
(* and JSON.parse both keep.                                               *)
(***************************************************************************)
\* EscapeAtom that leaves the backslash as it is
EscapeAtom_NoBackslash(a) ==
    IF a = Q THEN <<BS, Q>>
    ELSE IF a = LF THEN <<BS, "n">>
    ELSE <<a>>

\* QuoteJSONString, one character
EscapeAtom(a) ==
    IF a = Q THEN <<BS, Q>>
    ELSE IF a = BS THEN <<BS, BS>>
    ELSE IF a = LF THEN <<BS, "n">>
    ELSE <<a>>

RECURSIVE Escape(_)
Escape(s) == IF s = <<>> THEN <<>> ELSE EscapeAtom(Head(s)) \o Escape(Tail(s))

Quote(s) == <<Q>> \o Escape(s) \o <<Q>>

Member(key, s) == Quote(<<key>>) \o <<":">> \o Quote(s)

StringifyFile(f) ==
    <<"{">> \o Member("id", f.id) \o <<",">> \o Member("name", f.name) \o <<",">>
      \o Member("language", <<f.language>>) \o <<",">> \o Member("content", f.content)
      \o <<"}">>

RECURSIVE StringifyElements(_)
StringifyElements(fs) ==
    IF fs = <<>> THEN <<>>
    ELSE IF Len(fs) = 1 THEN StringifyFile(fs[1])
    ELSE StringifyFile(Head(fs)) \o <<",">> \o StringifyElements(Tail(fs))

\* JSON.stringify(files)
Stringify(fs) == <<"[">> \o StringifyElements(fs) \o <<"]">>

(***************************************************************************)
(* JSON.parse, on the texts the model stores in the slot: arrays of        *)
(* objects with the four string members of a FileNode, and corrupted       *)
(* texts.  A result is [ok, val, next]: ok = FALSE is the SyntaxError.     *)
(***************************************************************************)
Fail == [ok |-> FALSE, val |-> <<>>, next |-> 0]

Ok(v, n) == [ok |-> TRUE, val |-> v, next |-> n]

At(t, i, a) == i <= Len(t) /\ t[i] = a

RECURSIVE ScanString(_, _, _)
\* the characters of a string literal from atom i up to its closing quote
ScanString(t, i, acc) ==
    IF i > Len(t) THEN Fail
    ELSE IF t[i] = Q THEN Ok(acc, i + 1)
    ELSE IF t[i] = BS THEN
        IF i + 1 > Len(t) THEN Fail
        ELSE IF t[i + 1] = Q \/ t[i + 1] = BS THEN ScanString(t, i + 2, Append(acc, t[i + 1]))
        ELSE IF t[i + 1] = "n" THEN ScanString(t, i + 2, Append(acc, LF))
        ELSE Fail
    ELSE IF t[i] = LF THEN Fail
    ELSE ScanString(t, i + 1, Append(acc, t[i]))

ParseString(t, i) == IF At(t, i, Q) THEN ScanString(t, i + 1, <<>>) ELSE Fail

\* after the key k of a member: the colon and the value
ValueAfterKey(t, k, key) ==
    IF k.ok /\ k.val = <<key>> /\ At(t, k.next, ":") THEN ParseString(t, k.next + 1) ELSE Fail

\* "key":"value" at atom i
ParseMember(t, i, key) == ValueAfterKey(t, ParseString(t, i), key)

\* the values parsed so far, with one more
Extend(prev, m) == IF m.ok THEN Ok(Append(prev.val, m.val), m.next) ELSE Fail

\* after the members parsed so far: the separator sep and the member key
ThenMember(t, prev, sep, key) ==
    IF prev.ok /\ At(t, prev.next, sep)
    THEN Extend(prev, ParseMember(t, prev.next + 1, key))
    ELSE Fail

\* after the four members: the closing brace, and the object
CloseFile(t, r) ==
    IF r.ok /\ At(t, r.next, "}")
    THEN Ok([id |-> r.val[1], name |-> r.val[2], language |-> Concat(r.val[3]),
             content |-> r.val[4]], r.next + 1)
    ELSE Fail

\* an object at atom i
ParseFile(t, i) ==
    CloseFile(t,
        ThenMember(t,
            ThenMember(t,
                ThenMember(t,
                    ThenMember(t, Ok(<<>>, i), "{", "id"),
                    ",", "name"),
                ",", "language"),
            ",", "content"))

RECURSIVE ParseElements(_, _, _)
\* the elements of an array from atom i, where f is the element just parsed
\* and acc the ones before it, up to the closing bracket
ParseElements(t, f, acc) ==
    IF ~f.ok THEN Fail
    ELSE IF At(t, f.next, "]") THEN Ok(Append(acc, f.val), f.next + 1)
    ELSE IF At(t, f.next, ",") THEN ParseElements(t, ParseFile(t, f.next + 1), Append(acc, f.val))
    ELSE Fail

ParseArray(t) ==
    IF ~At(t, 1, "[") THEN Fail
    ELSE IF At(t, 2, "]") THEN Ok(<<>>, 3)
    ELSE ParseElements(t, ParseFile(t, 2), <<>>)

\* the whole text must be consumed
Whole(t, r) == IF r.ok /\ r.next = Len(t) + 1 THEN r ELSE Fail

\* JSON.parse(text)
JSONParse(t) == Whole(t, ParseArray(t))

(***************************************************************************)
(* The inputs the model draws from.                                        *)
(***************************************************************************)
UTILS_C == <<"utils", ".", "c">>
APP_CPP == <<"app", ".", "cpp">>
NODE_H == <<"node", ".", "h">>
VEC_HPP == <<"vec", ".", "H", "P", "P">>
BARE_C == <<"c">>
NOTES_TXT == <<"notes", ".", "txt">>
MAKEFILE == <<"M", "akefile">>

\* what prompt() returns: null (cancelled) or the text typed
PromptAnswers ==
    {Nothing, Just(UTILS_C), Just(APP_CPP), Just(NODE_H), Just(VEC_HPP), Just(BARE_C),
     Just(NOTES_TXT), Just(MAKEFILE)}

\* values of Math.random(): 0.5, and two values that agree on their first
\* nine base-36 digits
R_HALF == <<"i">>
R_LONG == <<"4", "f", "z", "y", "o", "8", "2", "m", "v", "y", "r">>
R_NEAR == <<"4", "f", "z", "y", "o", "8", "2", "m", "v", "z">>

MathRandomValues == {R_HALF, R_LONG, R_NEAR}

\* what the editor's onChange passes: undefined or the new text
EDITED == <<"s = ", Q, "a", BS, "b", Q, ";", LF>>

EditorValues == {Nothing, Just(EDITED)}

\* what localStorage holds before the first start: no key, an empty string, a
\* text cut short (the closing bracket is missing), or an earlier session's
\* workspace
CUT_SHORT == SubSeq(Stringify(INITIAL_FILES), 1, Len(Stringify(INITIAL_FILES)) - 1)

EARLIER == <<[INITIAL_FILES[2] EXCEPT !.content = EDITED]>>

InitialSlots == {Nothing, Just(<<>>), Just(CUT_SHORT), Just(Stringify(EARLIER))}

(***************************************************************************)
(* Start of the application (App.tsx 25-37): the initializers of the first *)
(* render and the persist effect that runs once it is committed.           *)
(***************************************************************************)
NoOp == [op |-> "none", arg |-> Nothing, yes |-> FALSE, over |-> "none"]

Op(name) == [NoOp EXCEPT !.op = name]

\* App.tsx 33: files.find(f => f.id === activeFileId) || files[0]; the index
\* of that element, 0 when files is empty (undefined)
ActiveIndex(fs, aid) ==
    IF \E i \in 1..Len(fs) : fs[i].id = aid
    THEN CHOOSE i \in 1..Len(fs) : fs[i].id = aid /\ \A j \in 1..(i - 1) : fs[j].id # aid
    ELSE IF fs = <<>> THEN 0 ELSE 1

\* App.tsx 25-28: the initial files, or the exception JSON.parse throws
LoadFiles(saved) ==
    IF Truthy(saved) THEN JSONParse(saved.text) ELSE Ok(INITIAL_FILES, 0)

\* The state after the first render, `loaded` being what the initializer of
\* files returned or threw.  The render throws when JSON.parse throws (line
\* 27) and when files[0] is undefined (line 29); nothing is mounted then and
\* no effect runs.
StartedWith(saved, loaded) ==
    IF ~loaded.ok \/ loaded.val = <<>>
    THEN [files |-> loaded.val, activeFileId |-> <<>>, slot |-> saved, phase |-> "loadFailed"]
    ELSE [files |-> loaded.val, activeFileId |-> loaded.val[1].id,
          slot |-> Just(Stringify(loaded.val)), phase |-> "ready"]

Started(saved) == StartedWith(saved, LoadFiles(saved))

\* the variables of the workspace take the values of the record st
Workspace(st, f, a, sl, ph) ==
    /\ f = st.files
    /\ a = st.activeFileId
    /\ sl = st.slot
    /\ ph = st.phase

Init ==
    \E saved \in InitialSlots :
        /\ Workspace(Started(saved), files, activeFileId, slot, phase)
        /\ terminalLines = <<>>
        /\ isRunning = FALSE
        /\ runs = <<>>
        /\ last = [Op("start") EXCEPT !.arg = saved]

(***************************************************************************)
(* Workspace handlers.  Each action is one event handler together with the *)
(* render and the persist effect (App.tsx 35-37) that follow it: the       *)
(* effect runs whenever the handler replaced the files array.              *)
(***************************************************************************)
\* App.tsx 133: a click on an entry of the file list
SelectFile(i) ==
    /\ phase = "ready"
    /\ i \in 1..Len(files)
    /\ activeFileId' = files[i].id
    /\ last' = [Op("select") EXCEPT !.arg = Just(files[i].id)]
    /\ UNCHANGED <<files, terminalLines, isRunning, slot, phase, runs>>

\* App.tsx 41: prev.map(f => f.id === activeFileId ? { ...f, content: value } : f)
WithContent(fs, aid, value) ==
    [i \in 1..Len(fs) |-> IF fs[i].id = aid THEN [fs[i] EXCEPT !.content = value] ELSE fs[i]]

\* HandleEditorChange that also empties the console
HandleEditorChange_ClearsLog(value) ==
    /\ phase = "ready"
    /\ last' = [Op("edit") EXCEPT !.arg = value]
    /\ IF ~value.given
       THEN UNCHANGED <<files, slot, terminalLines>>
       ELSE /\ files' = WithContent(files, activeFileId, value.text)
            /\ slot' = Just(Stringify(files'))
            /\ terminalLines' = <<>>
    /\ UNCHANGED <<activeFileId, isRunning, phase, runs>>

\* App.tsx 39-42
HandleEditorChange(value) ==
    /\ phase = "ready"
    /\ last' = [Op("edit") EXCEPT !.arg = value]
    /\ IF ~value.given
       THEN UNCHANGED <<files, slot>>
       ELSE /\ files' = WithContent(files, activeFileId, value.text)
            /\ slot' = Just(Stringify(files'))
    /\ UNCHANGED <<activeFileId, terminalLines, isRunning, phase, runs>>

\* App.tsx 71-92, for the answer to prompt(); Math.random() is called once
\* the name is accepted
CreateNewFile(name) ==
    /\ phase = "ready"
    /\ last' = [Op("create") EXCEPT !.arg = name]
    /\ IF ~Truthy(name) \/ LangOfExt(ExtOf(name.text)) = Rejected
       THEN UNCHANGED <<files, activeFileId, slot>>
       ELSE \E r \in MathRandomValues :
                /\ files' = Append(files, NewFile(name.text, LangOfExt(ExtOf(name.text)), r))
                /\ activeFileId' = NewId(r)
                /\ slot' = Just(Stringify(files'))
    /\ UNCHANGED <<terminalLines, isRunning, phase, runs>>

\* App.tsx 98, 100: files.filter(f => f.id !== id)
Without(fs, id) == SelectSeq(fs, LAMBDA f : f.id # id)

\* DeleteFile with files.length < 1 as its first test
DeleteFile_OffByOne(i, yes) ==
    /\ phase = "ready"
    /\ i \in 1..Len(files)
    /\ LET id == files[i].id
           remaining == Without(files, id)
       IN  IF Len(files) < 1
           THEN /\ last' = [Op("delete") EXCEPT !.arg = Just(id)]
                /\ UNCHANGED <<files, activeFileId, slot, phase>>
           ELSE /\ last' = [Op("delete") EXCEPT !.arg = Just(id), !.yes = yes]
                /\ IF ~yes
                   THEN UNCHANGED <<files, activeFileId, slot, phase>>
                   ELSE /\ files' = remaining
                        /\ IF remaining = <<>>
                           THEN /\ phase' = "crashed"
                                /\ UNCHANGED <<activeFileId, slot>>
                           ELSE /\ activeFileId' =
                                       IF activeFileId = id THEN remaining[1].id
                                       ELSE activeFileId
                                /\ slot' = Just(Stringify(remaining))
                                /\ UNCHANGED phase
    /\ UNCHANGED <<terminalLines, isRunning, runs>>

\* App.tsx 94-103, for the entry i of the file list and the answer to
\* confirm().  When the filter leaves nothing, remaining[0].id throws after
\* setFiles was queued, the next render throws on activeFile (undefined), and
\* React unmounts the tree: no effect runs, the slot keeps its text.
DeleteFile(i, yes) ==
    /\ phase = "ready"
    /\ i \in 1..Len(files)
    /\ LET id == files[i].id
           remaining == Without(files, id)
       IN  IF Len(files) <= 1
           THEN /\ last' = [Op("delete") EXCEPT !.arg = Just(id)]
                /\ UNCHANGED <<files, activeFileId, slot, phase>>
           ELSE /\ last' = [Op("delete") EXCEPT !.arg = Just(id), !.yes = yes]
                /\ IF ~yes
                   THEN UNCHANGED <<files, activeFileId, slot, phase>>
                   ELSE /\ files' = remaining
                        /\ IF remaining = <<>>
                           THEN /\ phase' = "crashed"
                                /\ UNCHANGED <<activeFileId, slot>>
                           ELSE /\ activeFileId' =
                                       IF activeFileId = id THEN remaining[1].id
                                       ELSE activeFileId
                                /\ slot' = Just(Stringify(remaining))
                                /\ UNCHANGED phase
    /\ UNCHANGED <<terminalLines, isRunning, runs>>

(***************************************************************************)
(* Console.  A TerminalLine is [content, type]; its timestamp (Date.now()) *)
(* is read by no handler and is left out.                                  *)
(***************************************************************************)
Line(content, type) == [content |-> content, type |-> type]

\* AddLine that puts the line in front
AddLine_Prepend(lines, content, type) == <<Line(content, type)>> \o lines

\* App.tsx 44-46: prev => [...prev, line]
AddLine(lines, content, type) == Append(lines, Line(content, type))

SAVED_LINE == Line(<<"System: Workspace saved to local storage.">>, "system")

\* App.tsx 105-108
SaveFiles ==
    /\ phase = "ready"
    /\ slot' = Just(Stringify(files))
    /\ terminalLines' = AddLine(terminalLines, SAVED_LINE.content, SAVED_LINE.type)
    /\ last' = Op("save")
    /\ UNCHANGED <<files, activeFileId, isRunning, phase, runs>>

\* the lines of runCode, App.tsx 53-66
CompileCommand(name) == <<"$ g++ ">> \o name \o <<" -o output">>
Compiling(name) == <<"Compiling ">> \o name \o <<"...">>
LINKING == <<"Linking objects...">>
RUN_COMMAND == <<"$ ./output">>
NOTE == <<"Note: This is a frontend simulation. Native system execution is restricted in the browser environment.">>
EXIT_CODE == <<"Process finished with exit code 0">>

\* What the log held when a run began (line 51 empties it): nothing, the
\* lines of an earlier run, or notices only.  Kept with the invocation for the
\* properties; no handler reads it.
Over(lines) ==
    IF lines = <<>> THEN "nothing"
    ELSE IF \E i \in 1..Len(lines) : lines[i].content = EXIT_CODE THEN "run"
    ELSE "notes"

\* RunCode without the test of isRunning
RunCode_NoGuard ==
    /\ phase = "ready"
    /\ last' = Op("run")
    /\ isRunning' = TRUE
    /\ terminalLines' =
           AddLine(<<>>, CompileCommand(files[ActiveIndex(files, activeFileId)].name), "system")
    /\ runs' = Append(runs, [pc |-> "await600",
                             name |-> files[ActiveIndex(files, activeFileId)].name,
                             over |-> Over(terminalLines)])
    /\ UNCHANGED <<files, activeFileId, slot, phase>>

\* RunCode without setTerminalLines([]) (line 51)
RunCode_NoClear ==
    /\ phase = "ready"
    /\ last' = Op("run")
    /\ IF isRunning
       THEN UNCHANGED <<terminalLines, isRunning, runs>>
       ELSE LET name == files[ActiveIndex(files, activeFileId)].name IN
            /\ isRunning' = TRUE
            /\ terminalLines' = AddLine(terminalLines, CompileCommand(name), "system")
            /\ runs' = Append(runs, [pc |-> "await600", name |-> name,
                                     over |-> Over(terminalLines)])
    /\ UNCHANGED <<files, activeFileId, slot, phase>>

\* App.tsx 48-56: a request to run, up to the first await.  The closure keeps
\* activeFile of the render the handler belongs to.
RunCode ==
    /\ phase = "ready"
    /\ last' = Op("run")
    /\ IF isRunning
       THEN UNCHANGED <<terminalLines, isRunning, runs>>
       ELSE LET name == files[ActiveIndex(files, activeFileId)].name IN
            /\ isRunning' = TRUE
            /\ terminalLines' = AddLine(<<>>, CompileCommand(name), "system")
            /\ runs' = Append(runs, [pc |-> "await600", name |-> name,
                                     over |-> Over(terminalLines)])
    /\ UNCHANGED <<files, activeFileId, slot, phase>>

\* A state update of the timeline: applied while the component is mounted,
\* dropped by React once the tree is unmounted.
Mounted == phase = "ready"

RemoveAt(s, k) == [i \in 1..(Len(s) - 1) |-> IF i < k THEN s[i] ELSE s[i + 1]]

\* TimerCompile that reads the name of the buffer active when it fires
TimerCompile_CurrentName(k) ==
    /\ k \in 1..Len(runs)
    /\ runs[k].pc = "await600"
    /\ runs' = [runs EXCEPT ![k].pc = "await400"]
    /\ terminalLines' =
           IF Mounted
           THEN AddLine(terminalLines,
                        Compiling(files[ActiveIndex(files, activeFileId)].name), "output")
           ELSE terminalLines
    /\ last' = Op("timer600")
    /\ UNCHANGED <<files, activeFileId, isRunning, slot, phase>>

\* App.tsx 56-57: the 600 ms timer of invocation k fires
TimerCompile(k) ==
    /\ k \in 1..Len(runs)
    /\ runs[k].pc = "await600"
    /\ runs' = [runs EXCEPT ![k].pc = "await400"]
    /\ terminalLines' =
           IF Mounted THEN AddLine(terminalLines, Compiling(runs[k].name), "output")
           ELSE terminalLines
    /\ last' = Op("timer600")
    /\ UNCHANGED <<files, activeFileId, isRunning, slot, phase>>

\* TimerLink that adds its line as a system line
TimerLink_System(k) ==
    /\ k \in 1..Len(runs)
    /\ runs[k].pc = "await400"
    /\ runs' = [runs EXCEPT ![k].pc = "await500"]
    /\ terminalLines' =
           IF Mounted THEN AddLine(terminalLines, LINKING, "system") ELSE terminalLines
    /\ last' = Op("timer400")
    /\ UNCHANGED <<files, activeFileId, isRunning, slot, phase>>

\* App.tsx 59-60: the 400 ms timer of invocation k fires
TimerLink(k) ==
    /\ k \in 1..Len(runs)
    /\ runs[k].pc = "await400"
    /\ runs' = [runs EXCEPT ![k].pc = "await500"]
    /\ terminalLines' =
           IF Mounted THEN AddLine(terminalLines, LINKING, "output") ELSE terminalLines
    /\ last' = Op("timer400")
    /\ UNCHANGED <<files, activeFileId, isRunning, slot, phase>>

\* TimerFinish without the note of line 64
TimerFinish_NoNote(k) ==
    /\ k \in 1..Len(runs)
    /\ runs[k].pc = "await500"
    /\ runs' = RemoveAt(runs, k)
    /\ terminalLines' =
           IF Mounted
           THEN AddLine(AddLine(terminalLines, RUN_COMMAND, "system"), EXIT_CODE, "system")
           ELSE terminalLines
    /\ isRunning' = IF Mounted THEN FALSE ELSE isRunning
    /\ last' = [Op("timer500") EXCEPT !.arg = Just(runs[k].name), !.over = runs[k].over]
    /\ UNCHANGED <<files, activeFileId, slot, phase>>

\* App.tsx 62-68: the 500 ms timer of invocation k fires and runCode returns
TimerFinish(k) ==
    /\ k \in 1..Len(runs)
    /\ runs[k].pc = "await500"
    /\ runs' = RemoveAt(runs, k)
    /\ terminalLines' =
           IF Mounted
           THEN AddLine(AddLine(AddLine(terminalLines, RUN_COMMAND, "system"),
                                NOTE, "system"),
                        EXIT_CODE, "system")
           ELSE terminalLines
    /\ isRunning' = IF Mounted THEN FALSE ELSE isRunning
    /\ last' = [Op("timer500") EXCEPT !.arg = Just(runs[k].name), !.over = runs[k].over]
    /\ UNCHANGED <<files, activeFileId, slot, phase>>

\* The page is loaded again: the timers of the old page are gone and the
\* application starts from what the slot holds.
Reload ==
    /\ Workspace(Started(slot), files', activeFileId', slot', phase')
    /\ terminalLines' = <<>>
    /\ isRunning' = FALSE
    /\ runs' = <<>>
    /\ last' = [Op("start") EXCEPT !.arg = slot]

MaxRuns == 2    \* timers are looked for among this many suspended invocations

Timers == \E k \in 1..MaxRuns : TimerCompile(k) \/ TimerLink(k) \/ TimerFinish(k)

Next ==
    \/ \E i \in 1..MaxFiles : SelectFile(i)
    \/ \E value \in EditorValues : HandleEditorChange(value)
    \/ Len(files) < MaxFiles /\ \E name \in PromptAnswers : CreateNewFile(name)
    \/ \E i \in 1..MaxFiles, yes \in BOOLEAN : DeleteFile(i, yes)
    \/ Len(terminalLines) < MaxLog /\ SaveFiles
    \/ RunCode
    \/ \E k \in 1..MaxRuns : TimerCompile(k)
    \/ \E k \in 1..MaxRuns : TimerLink(k)
    \/ \E k \in 1..MaxRuns : TimerFinish(k)

\* one session of the application
Spec == Init /\ [][Next]_vars

\* one session, with the timers of a run firing
FairSpec == Spec /\ WF_vars(Timers)

\* sessions in sequence: the page may be loaded again
ReloadSpec == Init /\ [][Next \/ Reload]_vars

\* the handlers of the workspace alone, on collections of up to
\* MaxWorkspaceFiles buffers
WorkspaceNext ==
    \/ \E i \in 1..MaxWorkspaceFiles : SelectFile(i)
    \/ \E value \in EditorValues : HandleEditorChange(value)
    \/ Len(files) < MaxWorkspaceFiles /\ \E name \in PromptAnswers : CreateNewFile(name)
    \/ \E i \in 1..MaxWorkspaceFiles, yes \in BOOLEAN : DeleteFile(i, yes)

\* one session in which nothing is run or saved by hand
WorkspaceSpec == Init /\ [][WorkspaceNext]_vars

(***************************************************************************)
(* Properties.  Every action records itself in `last`, so a step whose     *)
(* next state has last.op = "delete" is a step of deleteFile, and so on.   *)
(***************************************************************************)
Ids(fs) == {fs[i].id : i \in 1..Len(fs)}

\* the extension of a file name, as the specification understands it: what
\* follows the last dot of a name that has a dot, letter case aside
SUPPORTED == {"c", "cpp", "h", "hpp"}

HasDot(name) == \E i \in 1..Len(name) : name[i] = "."

LastDot(name) == CHOOSE i \in 1..Len(name) : name[i] = "." /\ \A j \in (i + 1)..Len(name) : name[j] # "."

Extension(name) == Concat(ToLowerCase(SubSeq(name, LastDot(name) + 1, Len(name))))

HasSupportedExtension(name) == HasDot(name) /\ Extension(name) \in SUPPORTED

\* C1: once the application has started, the buffer collection holds at
\* least one buffer, whatever files were created and deleted.
C1_NeverEmpty == phase # "loadFailed" => files # <<>>

\* C2: once the application has started, the active pointer is the id of a
\* buffer of the collection.
C2_ActiveExists == phase # "loadFailed" => activeFileId \in Ids(files)

\* C3: an accepted deleteFile of the active buffer leaves the active pointer
\* on the first buffer of the collection that results.
C3_DeleteActiveSelectsHead ==
    [][(last'.op = "delete" /\ last'.yes /\ Len(files) > 1 /\ last'.arg.text = activeFileId)
         => (files' # <<>> /\ activeFileId' = files'[1].id)]_vars

\* C4: createNewFile with a name that has no extension, or an extension
\* other than c, cpp, h, hpp, changes neither the collection nor the pointer.
C4_InvalidExtensionRejected ==
    [][(last'.op = "create" /\ last'.arg.given /\ ~HasSupportedExtension(last'.arg.text))
         => UNCHANGED <<files, activeFileId>>]_vars

\* C5: createNewFile with an extension c, cpp, h or hpp appends exactly one
\* buffer, with the given name, the language of the extension and that
\* language's skeleton, leaves the earlier buffers as they were, and makes
\* the new buffer the active one.
C5_CreateAppends ==
    [][(last'.op = "create" /\ last'.arg.given /\ HasSupportedExtension(last'.arg.text))
         => /\ Len(files') = Len(files) + 1
            /\ SubSeq(files', 1, Len(files)) = files
            /\ Last(files').name = last'.arg.text
            /\ Last(files').language =
                   (IF Extension(last'.arg.text) = "c" THEN "c" ELSE "cpp")
            /\ Last(files').content =
                   (IF Extension(last'.arg.text) = "c" THEN SKELETON_C ELSE SKELETON_CPP)
            /\ activeFileId' = Last(files').id]_vars

\* utils.c was created next to the two built-in files
C5_Witness ==
    /\ last.op = "create"
    /\ last.arg = Just(UTILS_C)
    /\ Len(files) = 3
    /\ SubSeq(files, 1, 2) = INITIAL_FILES
    /\ files[3].name = UTILS_C
    /\ files[3].language = "c"
    /\ files[3].content = SKELETON_C
    /\ activeFileId = files[3].id

\* C6: once the application has started, the slot holds the serialization
\* of the collection whenever a handler has returned.
C6_SlotSynchronized == phase # "loadFailed" => slot = Just(Stringify(files))

\* C7: loading from a slot that holds the serialization of the collection
\* yields that collection again.
C7_RoundTrip ==
    [][(last'.op = "start" /\ slot = Just(Stringify(files)))
         => (phase' = "ready" /\ files' = files)]_vars

\* a created file and an edited content (quote, backslash, line feed) were
\* loaded from the slot
C7_Witness ==
    /\ last.op = "start"
    /\ phase = "ready"
    /\ \E i \in 1..Len(files) : files[i].name = UTILS_C
    /\ \E i \in 1..Len(files) : files[i].content = EDITED

\* C8: a start from an absent or unreadable slot mounts the application on
\* the built-in files with the first of them active.
C8_LoadFallsBack ==
    (last.op = "start" /\ (~last.arg.given \/ ~JSONParse(last.arg.text).ok))
        => (phase = "ready" /\ files = INITIAL_FILES /\ activeFileId = INITIAL_FILES[1].id)

\* C9: a run request made while isRunning is true changes neither the log
\* nor the flag and suspends no further invocation; at most one invocation
\* of runCode is in flight.
C9_RunRefusedWhileRunning ==
    /\ [](Len(runs) <= 1)
    /\ [][(last'.op = "run" /\ isRunning) => UNCHANGED <<terminalLines, isRunning, runs>>]_vars

\* a run was requested after the first timer of the run in flight had fired
C9_Witness ==
    /\ last.op = "run"
    /\ isRunning
    /\ Len(runs) = 1
    /\ runs[1].pc = "await400"

\* C10: when isRunning is true and the timers fire, isRunning becomes false
\* with the exit-code line as the last line of the log.
C10_RunCompletes ==
    isRunning ~> (~isRunning /\ terminalLines # <<>> /\ Last(terminalLines).content = EXIT_CODE)

(***************************************************************************)
(* The console.  A step whose next state has last.op = "timer500" and      *)
(* isRunning false is the completion of a run; last.arg is then the name   *)
(* the run was started with and last.over what its start wiped.            *)
(***************************************************************************)
\* the lines of a log other than the notices of saveFiles
OwnLines(lines) == SelectSeq(lines, LAMBDA l : l # SAVED_LINE)

\* the lines of one run of the file called name, in the order of lines 53-66
RunLines(name) ==
    << Line(CompileCommand(name), "system"),
       Line(Compiling(name), "output"),
       Line(LINKING, "output"),
       Line(RUN_COMMAND, "system"),
       Line(NOTE, "system"),
       Line(EXIT_CODE, "system") >>

IsPrefix(s, t) == Len(s) <= Len(t) /\ SubSeq(t, 1, Len(s)) = s

Contains(s, sub) ==
    \E i \in 1..(Len(s) - Len(sub) + 1) : SubSeq(s, i, i + Len(sub) - 1) = sub

RunCompletes == last'.op = "timer500" /\ ~isRunning'

RunBegins == last'.op = "run" /\ ~isRunning

\* C11 as stated: when a run started over the lines of a completed run
\* completes, the log holds five lines, all of them lines of that run.
C11_FiveLines ==
    [][(RunCompletes /\ last'.over = "run")
         => /\ Len(terminalLines') = 5
            /\ \A i \in 1..Len(terminalLines') :
                   \E j \in 1..6 : terminalLines'[i] = RunLines(last'.arg.text)[j]]_vars

\* C11, amended: a run started over the lines of a completed run begins by
\* replacing the log with one line, and when it completes the log holds the
\* six lines of that run in order, apart from the notices of saveFiles
\* added while it was in progress.
C11_SecondRunOnly ==
    [][/\ (RunBegins /\ Over(terminalLines) = "run") => Len(terminalLines') = 1
       /\ (RunCompletes /\ last'.over = "run")
            => OwnLines(terminalLines') = RunLines(last'.arg.text)]_vars

\* a second run, of header.h, has completed, and a save was made during it
C11_Witness ==
    /\ last.op = "timer500"
    /\ last.over = "run"
    /\ ~isRunning
    /\ Len(terminalLines) = 7
    /\ OwnLines(terminalLines) = RunLines(HEADER_H)

\* C12 as stated: a run of main.cpp started from an empty log leaves five
\* entries when it completes, the first a command line that contains
\* main.cpp, the last the exit code.
C12_FiveEntries ==
    [][(RunCompletes /\ last'.over = "nothing" /\ last'.arg.text = MAIN_CPP)
         => /\ Len(terminalLines') = 5
            /\ Contains(terminalLines'[1].content, MAIN_CPP)
            /\ Last(terminalLines').content = EXIT_CODE]_vars

\* C12, amended: a run of main.cpp started from an empty log leaves six
\* entries of its own when it completes (notices of saveFiles made during
\* the run come on top), the first entry of the log a command line that
\* contains main.cpp, the last the exit code.
C12_SixEntries ==
    [][(RunCompletes /\ last'.over = "nothing" /\ last'.arg.text = MAIN_CPP)
         => /\ Len(OwnLines(terminalLines')) = 6
            /\ terminalLines'[1].type = "system"
            /\ Contains(terminalLines'[1].content, MAIN_CPP)
            /\ Last(terminalLines').content = EXIT_CODE]_vars

\* a run of main.cpp started from an empty log has completed with no save
\* during it
C12_Witness ==
    /\ last.op = "timer500"
    /\ last.over = "nothing"
    /\ last.arg = Just(MAIN_CPP)
    /\ ~isRunning
    /\ Len(terminalLines) = 6

\* the steps of runCode: the request and the three timers
RunOps == {"run", "timer600", "timer400", "timer500"}

\* C13 as stated: the log changes only in a step of the simulation.
C13_OnlyRuns ==
    [][terminalLines' # terminalLines => last'.op \in RunOps]_vars

\* C13, amended: the log starts empty and changes only in a step of the
\* simulation or of saveFiles; saveFiles appends its notice, a timer of the
\* run in progress appends, and only the start of a run removes lines.
C13_AppendOnly ==
    /\ [](last.op = "start" => terminalLines = <<>>)
    /\ [][/\ terminalLines' # terminalLines => last'.op \in (RunOps \cup {"save"})
          /\ last'.op = "save" => terminalLines' = Append(terminalLines, SAVED_LINE)
          /\ (last'.op \in RunOps /\ terminalLines' # terminalLines /\ ~RunBegins)
               => (isRunning /\ runs # <<>>)
          /\ ~IsPrefix(terminalLines, terminalLines') => RunBegins]_vars

\* a save was made while main.cpp was being compiled
C13_Witness ==
    /\ last.op = "save"
    /\ isRunning
    /\ terminalLines = <<Line(CompileCommand(MAIN_CPP), "system"), SAVED_LINE>>

\* C14: no two buffers of the collection have the same id.
C14_UniqueIds ==
    \A i, j \in 1..Len(files) : i # j => files[i].id # files[j].id

\* C15: a deleteFile that is refused, because one buffer is left or because
\* the confirmation is declined, changes neither the collection, the active
\* pointer, the log, the running flag nor the slot.
C15_RefusedDeleteChangesNothing ==
    [][(last'.op = "delete" /\ (Len(files) <= 1 \/ ~last'.yes))
         => UNCHANGED <<files, activeFileId, terminalLines, isRunning, slot>>]_vars

\* the deletion of the only buffer was refused during a run
C15_Witness ==
    /\ last.op = "delete"
    /\ ~last.yes
    /\ Len(files) = 1
    /\ last.arg = Just(files[1].id)
    /\ isRunning

\* C16: an edit replaces the content of the active buffer and nothing else:
\* every other buffer, the ids, names and languages, the length and order of
\* the collection and the pointer stay as they were; when no buffer has the
\* id of the pointer the collection is unchanged.
C16_EditReplacesActiveOnly ==
    [][(last'.op = "edit" /\ last'.arg.given)
         => /\ activeFileId' = activeFileId
            /\ Len(files') = Len(files)
            /\ \A i \in 1..Len(files) :
                   /\ files'[i].id = files[i].id
                   /\ files'[i].name = files[i].name
                   /\ files'[i].language = files[i].language
                   /\ files'[i].content =
                          (IF activeFileId \in Ids(files)
                                /\ i = ActiveIndex(files, activeFileId)
                           THEN last'.arg.text ELSE files[i].content)]_vars

\* the file name inside a compile-command or compiling line: what stands
\* between its first and its last piece
NameIn(content) == SubSeq(content, 2, Len(content) - 1)

\* the number of lines a run has added when it waits at pc
Stage(pc) == CASE pc = "await600" -> 1 [] pc = "await400" -> 2 [] pc = "await500" -> 3

\* C18: the lines of a run stand in the log in the order compile command
\* (system), compiling (output), linking (output), run command (system),
\* note (system), exit code (system): in every state the lines of the log
\* other than save notices are a prefix of that sequence, as long as the
\* wait of the run in progress says, and the whole of it once the run is over.
C18_RunLinesInOrder ==
    LET own == OwnLines(terminalLines) IN
    /\ own # <<>> => IsPrefix(own, RunLines(NameIn(own[1].content)))
    /\ (phase = "ready" /\ runs # <<>>)
         => (Len(own) = Stage(runs[1].pc) /\ IsPrefix(own, RunLines(runs[1].name)))
    /\ (phase = "ready" /\ runs = <<>> /\ own # <<>>) => Len(own) = 6

\* the run of main.cpp waits for its last timer; a save was made after its
\* first line
C18_Witness ==
    /\ runs # <<>>
    /\ runs[1].pc = "await500"
    /\ Len(terminalLines) = 4
    /\ terminalLines[2] = SAVED_LINE
    /\ OwnLines(terminalLines) = SubSeq(RunLines(MAIN_CPP), 1, 3)

\* C19: the lines of a run that mention a file name mention the name of the
\* buffer that was active when the run was requested: the compile command
\* carries that name, and the compiling line added later carries the name of
\* the compile command, whatever was selected or deleted in between.
C19_NameOfInvocation ==
    [][/\ RunBegins
            => terminalLines' =
                   <<Line(CompileCommand(files[ActiveIndex(files, activeFileId)].name),
                          "system")>>
       /\ (last'.op = "timer600" /\ phase = "ready")
            => Last(terminalLines').content = Compiling(NameIn(terminalLines[1].content))]_vars

\* the compiling line was added after the buffer of the run had been deleted
C19_Witness ==
    /\ last.op = "timer600"
    /\ phase = "ready"
    /\ Len(terminalLines) >= 2
    /\ Last(terminalLines).content = Compiling(NameIn(terminalLines[1].content))
    /\ \A i \in 1..Len(files) : files[i].name # NameIn(terminalLines[1].content)

\* the handlers of the workspace that are the subject of C20
WorkspaceOps == {"select", "edit", "create", "delete"}

\* C20: no step of a run changes the collection, the active pointer or the
\* slot, and no select, edit, create or delete changes the log, the running
\* flag or the progress of the run.
C20_NoInterference ==
    [][/\ last'.op \in RunOps => UNCHANGED <<files, activeFileId, slot>>
       /\ last'.op \in WorkspaceOps => UNCHANGED <<terminalLines, isRunning, runs>>]_vars

\* a buffer was deleted between the second and the third timer of a run
C20_Witness ==
    /\ last.op = "delete"
    /\ last.yes
    /\ phase = "ready"
    /\ isRunning
    /\ runs # <<>>
    /\ runs[1].pc = "await500"
    /\ Len(terminalLines) = 3

====
